---- MODULE Spec2Model ----
(***************************************************************************)
(* brief-cases: createSumType(...variants) builds a "dummy constructor"    *)
(* SumType carrying one static variant constructor per name; the values    *)
(* they build dispatch on their tag through `cases`, and inherit whatever  *)
(* is put on SumType.prototype.                                            *)
(*                                                                         *)
(* JavaScript objects are modelled by their own-property tables and their  *)
(* prototype links:                                                        *)
(*   value  ->  Variant.prototype {cases}  ->  SumType.prototype (the      *)
(*              extension surface)         ->  Object.prototype            *)
(*   opts (a plain object literal)         ->  Object.prototype            *)
(*   SumType (a function object) with own  prototype / name / statics      *)
(***************************************************************************)
EXTENDS Integers, Sequences, FiniteSets, TLC

VARIABLES strict, defs, surface, values, last

vars == <<strict, defs, surface, values, last>>

(*************************** bounds of the model ***************************)
MaxArgs == 2          \* longest payload handed to a variant constructor
MaxVariants == 2      \* longest name list handed to createSumType
MaxKeys == 2          \* most own entries of a handler map
MaxDefs == 1          \* sum types created in the dispatch specification
MaxValues == 1        \* values built in the dispatch specification
ExtMaxVariants == 1   \* longest name list in the extension specification
ExtMaxArgs == 1       \* longest payload in the extension specification
ExtMaxDefs == 2       \* sum types created in the extension specification
ExtMaxValues == 2     \* values built in the extension specification
MaxAttached == 2      \* most user properties attached at any one time

PayloadVals == {1, 2}
Handlers == {"h1", "h2"}
Behaviours == {"f", "g"}

\* names handed to createSumType in the dispatch specification
VariantNames == {"Leaf", "Inner", "_", "toString", "name"}
\* keys a handler map may carry in the dispatch specification
HandlerKeys == {"Leaf", "Inner", "_", "toString"}
\* names handed to createSumType in the extension specification
ExtVariantNames == {"Leaf", "prototype"}
\* payload elements in the extension specification
ExtPayloadVals == {1}
\* names under which behaviour is attached
AttachNames == {"m", "toString"}
\* names under which a property is put on the SumType object itself
StaticNames == {"m"}

(************************ JavaScript ground facts **************************)
Undefined == "undefined"

\* members every plain object inherits from Object.prototype
ObjectProtoNames == {"toString"}

\* own properties of a function object that are not writable
ReadOnlyFnProps == {"name"}

\* own properties of a Variant instance, and of Variant.prototype
OwnFields == {"_name", "_args"}
BuiltIn == OwnFields \cup {"cases"}

\* names an extension surface may carry
SurfaceNames == AttachNames \cup BuiltIn

PropNames == VariantNames \cup ExtVariantNames \cup AttachNames

Absent == [kind |-> "absent", of |-> ""]
Ctor(n) == [kind |-> "ctor", of |-> n]
SurfaceRef == [kind |-> "surface", of |-> ""]
FnName == [kind |-> "string", of |-> "SumType"]
Static(b) == [kind |-> "static", of |-> b]

SeqsUpTo(S, n) == UNION {[1..k -> S] : k \in 0..n}
Range(s) == {s[i] : i \in 1..Len(s)}

(***************************** createSumType ******************************)
\* function SumType() {} : own `prototype` (writable) and `name` (read-only)
NewSumType ==
    [n \in PropNames |->
        IF n = "prototype" THEN SurfaceRef
        ELSE IF n = "name" THEN FnName
        ELSE Absent]

\* SumType[name] = (...args) => new Variant(name, args)
\* a write to a read-only own property is ignored in sloppy code
PutCtor(props, n) ==
    IF n \in ReadOnlyFnProps THEN props ELSE [props EXCEPT ![n] = Ctor(n)]

RECURSIVE ForEachVariant(_, _)
ForEachVariant(props, names) ==
    IF names = << >> THEN props
    ELSE ForEachVariant(PutCtor(props, Head(names)), Tail(names))

\* ... and raises TypeError in strict code (the ES-module build)
DefineThrows(names) == strict /\ \E i \in 1..Len(names) : names[i] \in ReadOnlyFnProps

\* SumType.prototype as created: nothing attached
NewSurface == [n \in SurfaceNames |-> Undefined]

NoError == [type |-> "none", tag |-> ""]
TypeError == [type |-> "TypeError", tag |-> ""]

Define(names, limit) ==
    /\ Len(defs) < limit
    /\ IF DefineThrows(names)
       THEN /\ UNCHANGED <<defs, surface>>
            /\ last' = [op |-> "define", variants |-> names, def |-> 0,
                        error |-> TypeError]
       ELSE /\ defs' = Append(defs, [variants |-> names,
                                     props |-> ForEachVariant(NewSumType, names),
                                     stray |-> NewSurface])
            /\ surface' = Append(surface, NewSurface)
            /\ last' = [op |-> "define", variants |-> names,
                        def |-> Len(defs) + 1, error |-> NoError]
    /\ UNCHANGED <<strict, values>>

(*************************** variant constructors *************************)
\* function Variant(name, args) { this._name = name; this._args = args; }
Variant(d, n, args) == [def |-> d, name |-> n, args |-> args]

\* as Construct, but an equal value built earlier is handed out again
ConstructInterned(d, n, args, limit) ==
    /\ d \in 1..Len(defs)
    /\ n \in Range(defs[d].variants)
    /\ Len(values) < limit
    /\ LET f == defs[d].props[n]
           same == {i \in 1..Len(values) : values[i] = Variant(d, f.of, args)} IN
       IF f.kind = "ctor" /\ same # {}
       THEN /\ UNCHANGED values
            /\ last' = [op |-> "construct", def |-> d, name |-> n, args |-> args,
                        ref |-> CHOOSE i \in same : TRUE, error |-> NoError]
       ELSE IF f.kind = "ctor"
       THEN /\ values' = Append(values, Variant(d, f.of, args))
            /\ last' = [op |-> "construct", def |-> d, name |-> n, args |-> args,
                        ref |-> Len(values) + 1, error |-> NoError]
       ELSE /\ UNCHANGED values
            /\ last' = [op |-> "construct", def |-> d, name |-> n, args |-> args,
                        ref |-> 0, error |-> TypeError]
    /\ UNCHANGED <<strict, defs, surface>>

\* D[n](...args) for a name n that was handed to createSumType
Construct(d, n, args, limit) ==
    /\ d \in 1..Len(defs)
    /\ n \in Range(defs[d].variants)
    /\ Len(values) < limit
    /\ LET f == defs[d].props[n] IN
       IF f.kind = "ctor"
       THEN /\ values' = Append(values, Variant(d, f.of, args))
            /\ last' = [op |-> "construct", def |-> d, name |-> n, args |-> args,
                        ref |-> Len(values) + 1, error |-> NoError]
       ELSE /\ UNCHANGED values
            /\ last' = [op |-> "construct", def |-> d, name |-> n, args |-> args,
                        ref |-> 0, error |-> TypeError]
    /\ UNCHANGED <<strict, defs, surface>>

(*************************** property lookup *****************************)
Found(from, val, data) == [from |-> from, val |-> val, data |-> data]

\* as Get, but Variant.prototype is not chained to SumType.prototype
GetUnchained(i, n) ==
    LET x == values[i] IN
    IF n = "_name" THEN Found("own", x.name, << >>)
    ELSE IF n = "_args" THEN Found("own", "", x.args)
    ELSE IF n = "cases" THEN Found("Variant.prototype", "cases", << >>)
    ELSE IF n \in ObjectProtoNames
    THEN Found("Object.prototype", "Object.prototype." \o n, << >>)
    ELSE Found("none", Undefined, << >>)

\* as Get, but the surface is consulted before the value's own fields and
\* before Variant.prototype
GetSurfaceFirst(i, n) ==
    LET x == values[i] IN
    IF n \in SurfaceNames /\ surface[x.def][n] # Undefined
    THEN Found("SumType.prototype", surface[x.def][n], << >>)
    ELSE IF n = "_name" THEN Found("own", x.name, << >>)
    ELSE IF n = "_args" THEN Found("own", "", x.args)
    ELSE IF n = "cases" THEN Found("Variant.prototype", "cases", << >>)
    ELSE IF n \in ObjectProtoNames
    THEN Found("Object.prototype", "Object.prototype." \o n, << >>)
    ELSE Found("none", Undefined, << >>)

\* x[n] for the value with reference i: own fields, then Variant.prototype,
\* then SumType.prototype, then Object.prototype
Get(i, n) ==
    LET x == values[i] IN
    IF n = "_name" THEN Found("own", x.name, << >>)
    ELSE IF n = "_args" THEN Found("own", "", x.args)
    ELSE IF n = "cases" THEN Found("Variant.prototype", "cases", << >>)
    ELSE IF n \in SurfaceNames /\ surface[x.def][n] # Undefined
    THEN Found("SumType.prototype", surface[x.def][n], << >>)
    ELSE IF n \in ObjectProtoNames
    THEN Found("Object.prototype", "Object.prototype." \o n, << >>)
    ELSE Found("none", Undefined, << >>)

(********************************* cases **********************************)
\* handler maps: plain objects with at most MaxKeys own entries
HandlerMaps(keys) ==
    {o \in [keys -> Handlers \cup {Undefined}] :
        Cardinality({k \in keys : o[k] # Undefined}) <= MaxKeys}

HasOwn(opts, k) == k \in DOMAIN opts /\ opts[k] # Undefined

\* opts[k]: own entry, else what Object.prototype provides
OptsGet(opts, k) ==
    IF HasOwn(opts, k) THEN opts[k]
    ELSE IF k \in ObjectProtoNames THEN "Object.prototype." \o k
    ELSE Undefined

Truthy(v) == v # Undefined

\* what a called function returns: determined by the function and by the
\* arguments it received, and by nothing else
Apply(fn, args) == [by |-> fn, on |-> args]
NoValue == [by |-> "none", on |-> << >>]

Call(via, key, fn, args) == [via |-> via, key |-> key, fn |-> fn, args |-> args]

Returned(call) ==
    [kind |-> "return", calls |-> <<call>>, value |-> Apply(call.fn, call.args),
     error |-> NoError]
Thrown(tag) ==
    [kind |-> "throw", calls |-> << >>, value |-> NoValue,
     error |-> [type |-> "Error", tag |-> tag]]

\* as CasesOutcome, but the own handler is handed the first argument only
CasesOutcomeFirstArg(x, opts) ==
    IF Truthy(OptsGet(opts, x.name))
    THEN Returned(Call("own", x.name, OptsGet(opts, x.name),
                       SubSeq(x.args, 1, IF Len(x.args) > 1 THEN 1 ELSE Len(x.args))))
    ELSE IF Truthy(OptsGet(opts, "_"))
    THEN Returned(Call("fallback", "_", OptsGet(opts, "_"), << >>))
    ELSE Thrown(x.name)

\* as CasesOutcome, but the catch-all is tried before the own handler
CasesOutcomeFallbackFirst(x, opts) ==
    IF Truthy(OptsGet(opts, "_"))
    THEN Returned(Call("fallback", "_", OptsGet(opts, "_"), << >>))
    ELSE IF Truthy(OptsGet(opts, x.name))
    THEN Returned(Call("own", x.name, OptsGet(opts, x.name), x.args))
    ELSE Thrown(x.name)

\* Variant.prototype.cases = function(opts) { ... }
CasesOutcome(x, opts) ==
    IF Truthy(OptsGet(opts, x.name))
    THEN Returned(Call("own", x.name, OptsGet(opts, x.name), x.args))
    ELSE IF Truthy(OptsGet(opts, "_"))
    THEN Returned(Call("fallback", "_", OptsGet(opts, "_"), << >>))
    ELSE Thrown(x.name)

\* what `this._name` and `this._args` read inside `cases`
This(i) ==
    [def |-> values[i].def, name |-> Get(i, "_name").val, args |-> Get(i, "_args").data]

\* x.cases(opts): the member `cases` is looked up on x and called with x as
\* `this`; were it not Variant.prototype.cases, the function found would run
MemberOutcome(i, opts) ==
    IF Get(i, "cases").from = "Variant.prototype"
    THEN CasesOutcome(This(i), opts)
    ELSE Returned(Call("member", "cases", Get(i, "cases").val, << >>))

\* as Cases, but the call uses up the first element of the payload
CasesConsuming(i, opts) ==
    /\ i \in 1..Len(values)
    /\ last' = [op |-> "cases", ref |-> i, opts |-> opts,
                out |-> MemberOutcome(i, opts)]
    /\ values' = [values EXCEPT ![i].args =
                      IF @ = << >> THEN @ ELSE Tail(@)]
    /\ UNCHANGED <<strict, defs, surface>>

Cases(i, opts) ==
    /\ i \in 1..Len(values)
    /\ last' = [op |-> "cases", ref |-> i, opts |-> opts,
                out |-> MemberOutcome(i, opts)]
    /\ UNCHANGED <<strict, defs, surface, values>>

(*************************** attaching behaviour **************************)
\* the user properties that exist: on surfaces, on constructors reached
\* through an overwritten `prototype`, and on the SumType objects themselves
Attached ==
    {e \in (1..Len(defs)) \X {"surface", "stray", "static"} \X SurfaceNames :
        \/ e[2] = "surface" /\ surface[e[1]][e[3]] # Undefined
        \/ e[2] = "stray" /\ defs[e[1]].stray[e[3]] # Undefined
        \/ e[2] = "static" /\ e[3] \in StaticNames
                           /\ defs[e[1]].props[e[3]].kind = "static"}

Room(e) == e \in Attached \/ Cardinality(Attached) < MaxAttached

\* as Attach, but every sum type shares one surface
AttachShared(d, n, b) ==
    /\ d \in 1..Len(defs)
    /\ Room(<<d, "surface", n>>)
    /\ surface' = [e \in 1..Len(surface) |-> [surface[e] EXCEPT ![n] = b]]
    /\ UNCHANGED defs
    /\ last' = [op |-> "attach", def |-> d, name |-> n, to |-> b,
                onSurface |-> TRUE, error |-> NoError]
    /\ UNCHANGED <<strict, values>>

\* D.prototype[n] = b
Attach(d, n, b) ==
    /\ d \in 1..Len(defs)
    /\ IF defs[d].props["prototype"].kind = "surface"
       THEN /\ Room(<<d, "surface", n>>)
            /\ surface' = [surface EXCEPT ![d][n] = b]
            /\ UNCHANGED defs
       ELSE /\ Room(<<d, "stray", n>>)
            /\ defs' = [defs EXCEPT ![d].stray[n] = b]
            /\ UNCHANGED surface
    /\ last' = [op |-> "attach", def |-> d, name |-> n, to |-> b,
                onSurface |-> defs[d].props["prototype"].kind = "surface",
                error |-> NoError]
    /\ UNCHANGED <<strict, values>>

\* D[n] = b
AttachStatic(d, n, b) ==
    /\ d \in 1..Len(defs)
    /\ n \notin ReadOnlyFnProps
    /\ Room(<<d, "static", n>>)
    /\ defs' = [defs EXCEPT ![d].props[n] = Static(b)]
    /\ last' = [op |-> "attachStatic", def |-> d, name |-> n, to |-> b,
                onSurface |-> FALSE, error |-> NoError]
    /\ UNCHANGED <<strict, surface, values>>

(****************************** specifications ****************************)
Init ==
    /\ strict \in BOOLEAN
    /\ defs = << >>
    /\ surface = << >>
    /\ values = << >>
    /\ last = [op |-> "none"]

DispatchMaps == HandlerMaps(HandlerKeys)
DispatchArgs == SeqsUpTo(PayloadVals, MaxArgs)
DispatchLists == SeqsUpTo(VariantNames, MaxVariants)

DefineD == \E names \in DispatchLists : Define(names, MaxDefs)
ConstructD ==
    \E d \in 1..Len(defs), n \in VariantNames, args \in DispatchArgs :
        Construct(d, n, args, MaxValues)
CasesD == \E i \in 1..Len(values), opts \in DispatchMaps : Cases(i, opts)

NextDispatch == DefineD \/ ConstructD \/ CasesD

SpecDispatch == Init /\ [][NextDispatch]_vars

ExtArgs == SeqsUpTo(ExtPayloadVals, ExtMaxArgs)
ExtLists == SeqsUpTo(ExtVariantNames, ExtMaxVariants)

DefineE == \E names \in ExtLists : Define(names, ExtMaxDefs)
ConstructE ==
    \E d \in 1..Len(defs), n \in ExtVariantNames, args \in ExtArgs :
        Construct(d, n, args, ExtMaxValues)
AttachE == \E d \in 1..Len(defs), n \in AttachNames, b \in Behaviours : Attach(d, n, b)
AttachStaticE ==
    \E d \in 1..Len(defs), n \in StaticNames, b \in Behaviours : AttachStatic(d, n, b)

NextExtension == DefineE \/ ConstructE \/ AttachE \/ AttachStaticE

SpecExtension == Init /\ [][NextExtension]_vars

(************************* dispatch: C1 .. C4 *****************************)
\* the value, handler map and outcome of the last `cases` call
LastX == values[last.ref]
OwnSupplied == HasOwn(last.opts, LastX.name)
FallbackSupplied == HasOwn(last.opts, "_")

\* C1  Payload fidelity: a constructor stores exactly the arguments it
\* was called with, and `cases` with a handler for the value's own variant
\* calls that handler with exactly those arguments (same length, values and
\* order) and returns exactly what the handler returns.
PayloadFidelity ==
    /\ (last.op = "construct" /\ last.ref # 0) =>
           /\ values[last.ref].name = last.name
           /\ values[last.ref].args = last.args
    /\ (last.op = "cases" /\ OwnSupplied) =>
           /\ last.out.kind = "return"
           /\ Len(last.out.calls) = 1
           /\ last.out.calls[1].fn = last.opts[LastX.name]
           /\ last.out.calls[1].args = LastX.args
           /\ last.out.value = Apply(last.opts[LastX.name], LastX.args)

PayloadFidelityWitness ==
    /\ last.op = "cases" /\ OwnSupplied
    /\ Len(LastX.args) = 2 /\ LastX.args[1] # LastX.args[2]
    /\ last.out.value.on = LastX.args

\* C2  Unique dispatch with own-tag priority: with a handler for the
\* value's own variant in the map, one `cases` call makes exactly one
\* handler call, to that handler, through the own-tag branch; the fallback
\* branch is taken only when no handler for the own variant was supplied.
UniqueDispatch ==
    last.op = "cases" =>
        /\ OwnSupplied =>
               /\ Len(last.out.calls) = 1
               /\ last.out.calls[1].via = "own"
               /\ last.out.calls[1].key = LastX.name
               /\ last.out.calls[1].fn = last.opts[LastX.name]
        /\ \A k \in 1..Len(last.out.calls) :
               last.out.calls[k].via = "fallback" =>
                   /\ ~OwnSupplied
                   /\ FallbackSupplied
                   /\ last.out.calls[k].fn = last.opts["_"]

UniqueDispatchWitness ==
    /\ last.op = "cases" /\ OwnSupplied /\ FallbackSupplied
    /\ LastX.name # "_"
    /\ last.opts[LastX.name] # last.opts["_"]
    /\ last.out.calls[1].fn = last.opts[LastX.name]

\* C3  Non-exhaustive failure: `cases` with a handler map that has
\* neither an entry for the value's variant nor a `_` entry raises the
\* missing-case error naming that variant; no handler is called and nothing
\* is returned.
NonExhaustiveFailure ==
    (last.op = "cases" /\ ~OwnSupplied /\ ~FallbackSupplied) =>
        /\ last.out.kind = "throw"
        /\ last.out.error = [type |-> "Error", tag |-> LastX.name]
        /\ last.out.calls = << >>
        /\ last.out.value = NoValue

\* C4  Fallback arity: whenever `cases` calls the handler registered
\* under `_`, that handler receives zero arguments, whatever the variant of
\* the dispatching value and whatever its payload length, and `cases`
\* returns that handler's result.
FallbackArity ==
    last.op = "cases" =>
        \A k \in 1..Len(last.out.calls) :
            (FallbackSupplied /\ last.out.calls[k].key = "_") =>
                /\ last.out.calls[k].args = << >>
                /\ last.out.value = Apply(last.opts["_"], << >>)

(******************** construction: C7, C8 ********************************)
\* C7  Constructor binding: for every name in the list handed to
\* createSumType the returned object holds a constructor under that name,
\* calling it yields a value tagged with that name and tied to this
\* object's extension surface, and that surface is what the object's
\* `prototype` property refers to.
ConstructorBinding ==
    /\ (last.op = "define" /\ last.def # 0) =>
           /\ \A n \in Range(last.variants) : defs[last.def].props[n] = Ctor(n)
           /\ defs[last.def].props["prototype"] = SurfaceRef
    /\ (last.op = "construct" /\ last.ref # 0) =>
           /\ values[last.ref].name = last.name
           /\ values[last.ref].def = last.def

\* C8  No-failure operations: createSumType (for any name list), every
\* variant constructor and every attachment complete without raising; the
\* only error ever raised is the missing-case error of `cases`.
NoFailure ==
    /\ last.op \in {"define", "construct", "attach", "attachStatic"} =>
           last.error = NoError
    /\ (last.op = "cases" /\ last.out.kind = "throw") =>
           last.out.error.type = "Error"

(******************* extension: C5, C6, C9, C10 ***************************)
ValuesOf(d) == {i \in 1..Len(values) : values[i].def = d}
NonBuiltIn == AttachNames \ BuiltIn
LookupNames == AttachNames \cup BuiltIn
ExtMaps == HandlerMaps(ExtVariantNames \cup {"_"})

\* the last step attached b under n on the surface of sum type d
AttachedTo(d, n) ==
    last.op = "attach" /\ last.onSurface /\ last.def = d /\ last.name = n

\* C5  Retroactive, reference-based visibility: right after behaviour
\* is attached under a non-built-in name on a sum type's surface, every
\* value of that sum type, built before or after, resolves the name to that
\* behaviour (so a later attachment replaces an earlier one); what a value
\* resolves a name to changes only by such an attachment; and values of
\* one sum type always resolve the name alike.
RetroactiveVisibility ==
    /\ [](\A d \in 1..Len(defs), n \in NonBuiltIn :
            AttachedTo(d, n) =>
                \A i \in ValuesOf(d) :
                    Get(i, n) = Found("SumType.prototype", last.to, << >>))
    /\ [][\A i \in 1..Len(values), n \in NonBuiltIn :
            AttachedTo(values[i].def, n)' \/ Get(i, n)' = Get(i, n)]_vars
    /\ [](\A i, j \in 1..Len(values), n \in NonBuiltIn :
            values[i].def = values[j].def => Get(i, n) = Get(j, n))

RetroactiveVisibilityWitness ==
    /\ last.op = "attach" /\ last.onSurface /\ last.name = "toString"
    /\ Cardinality(ValuesOf(last.def)) = 2
    /\ \A i \in ValuesOf(last.def) : Get(i, last.name).val = last.to

\* C6  Extension isolation: attaching behaviour through one sum type
\* leaves every other sum type's object and surface as they were and
\* changes nothing that a value of another sum type resolves; creating a
\* sum type changes nothing in the sum types and values that exist.
ExtensionIsolation ==
    [][/\ \A d \in 1..Len(defs) :
             (last'.op = "attach" /\ last'.def # d) =>
                 /\ surface'[d] = surface[d]
                 /\ defs'[d] = defs[d]
                 /\ \A i \in ValuesOf(d), n \in LookupNames : Get(i, n)' = Get(i, n)
       /\ Len(defs') > Len(defs) =>
             /\ \A d \in 1..Len(defs) : defs'[d] = defs[d] /\ surface'[d] = surface[d]
             /\ values' = values]_vars

ExtensionIsolationWitness ==
    /\ Len(defs) = 2 /\ defs[1].variants = defs[2].variants
    /\ last.op = "attach" /\ last.onSurface /\ last.def = 1
    /\ surface[2][last.name] # Undefined
    /\ \E i \in ValuesOf(2) : Get(i, last.name).val # last.to

\* C9  Any property added to the object createSumType returned,
\* directly on it or on its `prototype`, is readable under the same name on
\* every value built by that object's variant constructors.
AttachedAvailable ==
    last.op \in {"attach", "attachStatic"} =>
        \A i \in ValuesOf(last.def) : Get(i, last.name).val = last.to

MemberNames == BuiltIn \cup {"m"}

DefineB == \E names \in ExtLists : Define(names, MaxDefs)
ConstructB ==
    \E d \in 1..Len(defs), n \in ExtVariantNames, args \in ExtArgs :
        Construct(d, n, args, ExtMaxValues)
CasesB == \E i \in 1..Len(values), opts \in ExtMaps : Cases(i, opts)
AttachB == \E d \in 1..Len(defs), n \in MemberNames, b \in Behaviours : Attach(d, n, b)

NextBuiltIn == DefineB \/ ConstructB \/ CasesB \/ AttachB

SpecBuiltIn == Init /\ [][NextBuiltIn]_vars

\* C11  Built-in members take precedence over the extension surface:
\* whatever is attached to the surface, also under `cases`, `_name` or
\* `_args`, every value resolves `_name` and `_args` to its own tag and
\* payload and `cases` to Variant.prototype.cases, no step changes what
\* these resolve to, and a `cases` call dispatches on the value's own tag
\* and payload; any other name resolves to the surface entry when there is
\* one and is never found on the value or on Variant.prototype.
BuiltInPrecedence ==
    /\ [](\A i \in 1..Len(values) :
            /\ Get(i, "_name") = Found("own", values[i].name, << >>)
            /\ Get(i, "_args") = Found("own", "", values[i].args)
            /\ Get(i, "cases") = Found("Variant.prototype", "cases", << >>)
            /\ \A n \in SurfaceNames \ BuiltIn :
                   IF surface[values[i].def][n] # Undefined
                   THEN Get(i, n) =
                            Found("SumType.prototype", surface[values[i].def][n], << >>)
                   ELSE Get(i, n).from \in {"Object.prototype", "none"})
    /\ [](last.op = "cases" =>
            last.out = CasesOutcome(values[last.ref], last.opts))
    /\ [][\A i \in 1..Len(values), n \in BuiltIn : Get(i, n)' = Get(i, n)]_vars

BuiltInPrecedenceWitness ==
    /\ last.op = "cases"
    /\ surface[values[last.ref].def]["cases"] # Undefined
    /\ surface[values[last.ref].def]["_name"] # Undefined
    /\ last.out.kind = "return"
    /\ last.out.calls[1].key = values[last.ref].name
    /\ last.out.calls[1].args = values[last.ref].args
    /\ Len(values[last.ref].args) = 1

\* C12  Value immutability: no step (createSumType, a constructor call,
\* a `cases` call that returns or raises, an attachment) changes the tag or
\* payload of a value that exists, or removes it; a `cases` call changes
\* neither the values nor any surface nor any SumType object.
ValueImmutability ==
    [][/\ Len(values') >= Len(values)
       /\ \A i \in 1..Len(values) : values'[i] = values[i]
       /\ last'.op = "cases" =>
             /\ values' = values
             /\ surface' = surface
             /\ defs' = defs]_vars

ValueImmutabilityWitness ==
    /\ Len(values) = 2
    /\ last.op = "cases" /\ last.out.kind = "throw"
    /\ Len(values[last.ref].args) = 1
    /\ \E n \in MemberNames : surface[values[last.ref].def][n] # Undefined

====
